---- MODULE Spec2Model ----
(***************************************************************************)
(* WordSearch (src/WordSearch.py): a grid of random lowercase letters is   *)
(* searched for the words of a dictionary file.  find_words builds the     *)
(* horizontal, vertical and diagonal comparison strings of the grid and    *)
(* collects every dictionary word that is a substring of one of them.      *)
(*                                                                         *)
(* Characters are one-character strings, Python strings are sequences of   *)
(* characters, Python lists are sequences (Python index i is TLA+ index    *)
(* i + 1), Python sets are sets.                                           *)
(***************************************************************************)
EXTENDS Integers, Sequences, FiniteSets, TLC

VARIABLES objs, last

vars == <<objs, last>>

(***************************************************************************)
(* Bounds of the model.                                                    *)
(***************************************************************************)
\* largest xsize and largest ysize tried
MaxSide == 3
\* largest number of cells (xsize * ysize) of a grid
MaxCells == 6
\* how many of the 26 letters random.choice may return
NumLetters == 2
\* largest number of lines of a dictionary file
MaxDictLines == 2

\* the WordSearch instances: the main specification follows one instance,
\* the rerun specification compares two
Objects == {1, 2}
MainObjects == {1}

NoObj == [exists |-> FALSE]

(***************************************************************************)
(* Python primitives used by the program.                                  *)
(***************************************************************************)
\* string.ascii_lowercase
ascii_lowercase ==
    << "a", "b", "c", "d", "e", "f", "g", "h", "i", "j", "k", "l", "m",
       "n", "o", "p", "q", "r", "s", "t", "u", "v", "w", "x", "y", "z" >>

NL == "\n"

Range(s) == {s[i] : i \in DOMAIN s}

\* range(n)
PyRange(n) == 0 .. (n - 1)

\* lst[i] is defined (no IndexError): negative indices count from the end
InRange(lst, i) == i < Len(lst) /\ i >= 0 - Len(lst)

\* lst[i]
At(lst, i) == IF i >= 0 THEN lst[i + 1] ELSE lst[Len(lst) + i + 1]

\* ''.join(reversed(s))
Reverse(s) == [i \in 1..Len(s) |-> s[Len(s) + 1 - i]]

\* w in s, for strings
IsSubstring(w, s) ==
    \E i \in 0 .. (Len(s) - Len(w)) : SubSeq(s, i + 1, i + Len(w)) = w

\* line.split('\n')[0]: the characters before the first newline
StripLine(line) ==
    IF \E i \in DOMAIN line : line[i] = NL
    THEN SubSeq(line, 1, (CHOOSE i \in DOMAIN line :
                             /\ line[i] = NL
                             /\ \A j \in 1..(i - 1) : line[j] # NL) - 1)
    ELSE line

MaxLen(words) ==
    IF words = << >> THEN 0
    ELSE CHOOSE n \in {Len(words[i]) : i \in DOMAIN words} :
             \A i \in DOMAIN words : Len(words[i]) <= n

RECURSIVE SortFrom(_, _, _)
SortFrom(words, k, top) ==
    IF k > top THEN << >>
    ELSE SelectSeq(words, LAMBDA w : Len(w) = k) \o SortFrom(words, k + 1, top)

\* sorted(words, key=len): stable, shortest first
SortedByLen(words) == SortFrom(words, 0, MaxLen(words))

(***************************************************************************)
(* The inputs.                                                             *)
(***************************************************************************)
\* the letters random.choice returns in this model
Drawn == {ascii_lowercase[i] : i \in 1..NumLetters}

\* the words the dictionary files of this model are written from
DictWords == { << >>, <<"a">>, <<"a", "b">>, <<"b", "b">> }

\* a dictionary file is its sequence of lines; every line ends with a
\* newline, except that the last line of a file may lack it
Terminated == {w \o <<NL>> : w \in DictWords}
Unterminated == DictWords \ { << >> }

DictFiles ==
    UNION { { f \in [1..n -> Terminated \cup Unterminated] :
                \A i \in 1..(n - 1) : f[i] \in Terminated } : n \in 0..MaxDictLines }

Sizes ==
    { xy \in (1..MaxSide) \X (1..MaxSide) : xy[1] * xy[2] <= MaxCells }

\* the outcomes of the random.choice calls of one _generate_grid call
Choices(xsize, ysize) == [1..ysize -> [1..xsize -> 1..NumLetters]]

\* the letters of the grids the tests inject
Injected == {"a", "b"}

\* the grids a test may inject into an object of that size
Grids(xsize, ysize) == [1..ysize -> [1..xsize -> Injected]]

(***************************************************************************)
(* WordSearch.__init__ and its helpers.                                    *)
(***************************************************************************)
\* _load_dictionary without the check for no entries
load_dictionary_unchecked(dict_file) ==
    LET words_dictionary == [i \in DOMAIN dict_file |-> StripLine(dict_file[i])]
    IN  [raised |-> "none", value |-> SortedByLen(words_dictionary)]

load_dictionary(dict_file) ==
    LET words_dictionary == [i \in DOMAIN dict_file |-> StripLine(dict_file[i])]
    IN  IF Len(words_dictionary) = 0
        THEN [raised |-> "ValueError", value |-> << >>]
        ELSE [raised |-> "none", value |-> SortedByLen(words_dictionary)]

\* _generate_grid with the two axes exchanged
generate_grid_transposed(xsize, ysize, rnd) ==
    [j \in 1..xsize |-> [i \in 1..ysize |-> ascii_lowercase[rnd[i][j]]]]

generate_grid(xsize, ysize, rnd) ==
    [j \in 1..ysize |-> [i \in 1..xsize |-> ascii_lowercase[rnd[j][i]]]]

WordSearchInit(dict_file, xsize, ysize, rnd) ==
    LET ld == load_dictionary(dict_file)
    IN  IF ld.raised # "none"
        THEN [raised |-> ld.raised, self |-> NoObj]
        ELSE [raised |-> "none",
              self |-> [exists |-> TRUE,
                        xsize |-> xsize,
                        ysize |-> ysize,
                        words_dictionary |-> ld.value,
                        letter_grid |-> generate_grid(xsize, ysize, rnd),
                        found_words |-> {}]]

(***************************************************************************)
(* The comparison-string extractors.                                       *)
(***************************************************************************)
get_horizontal_str(self) ==
    [k \in 1..(2 * Len(self.letter_grid)) |->
        LET curr_string == self.letter_grid[(k + 1) \div 2]
        IN  IF k % 2 = 1 THEN curr_string ELSE Reverse(curr_string)]

get_vertical_str(self) ==
    [k \in 1..(2 * self.xsize) |->
        LET curr_x == (k - 1) \div 2
            curr_string == [y \in 1..self.ysize |->
                               At(At(self.letter_grid, y - 1), curr_x)]
        IN  IF k % 2 = 1 THEN curr_string ELSE Reverse(curr_string)]

\* the <<row, column>> index pairs _get_diagonal_str evaluates
diagonal_reads(self) ==
    UNION { { <<inc, curr_x + inc>> : inc \in PyRange(self.xsize - curr_x) }
            \cup
            { <<inc, (self.xsize - 1 - curr_x) - inc>> :
                  inc \in PyRange(self.xsize - curr_x) }
          : curr_x \in PyRange(self.xsize) }

\* letter_grid[row][col] raises IndexError
ReadFails(self, rc) ==
    \/ ~InRange(self.letter_grid, rc[1])
    \/ /\ InRange(self.letter_grid, rc[1])
       /\ ~InRange(At(self.letter_grid, rc[1]), rc[2])

get_diagonal_str(self) ==
    IF \E rc \in diagonal_reads(self) : ReadFails(self, rc)
    THEN [raised |-> "IndexError", value |-> << >>]
    ELSE [raised |-> "none",
          value |->
            [k \in 1..(4 * self.xsize) |->
                LET curr_x == (k - 1) \div 4
                    d_upper_right ==
                        [n \in 1..(self.xsize - curr_x) |->
                            At(At(self.letter_grid, n - 1), curr_x + (n - 1))]
                    d_upper_left ==
                        [n \in 1..(self.xsize - curr_x) |->
                            At(At(self.letter_grid, n - 1),
                               (self.xsize - 1 - curr_x) - (n - 1))]
                IN  CASE (k - 1) % 4 = 0 -> d_upper_right
                      [] (k - 1) % 4 = 1 -> Reverse(d_upper_right)
                      [] (k - 1) % 4 = 2 -> d_upper_left
                      [] OTHER           -> Reverse(d_upper_left)]]

(***************************************************************************)
(* WordSearch.find_words: the object after the call, what was raised, and  *)
(* the value returned.                                                     *)
(***************************************************************************)
\* the dictionary words the loop over words_dictionary adds to found_words
matching_words(self, comp_strings) ==
    { self.words_dictionary[k] :
        k \in { i \in DOMAIN self.words_dictionary :
                  \E n \in DOMAIN comp_strings :
                      IsSubstring(self.words_dictionary[i], comp_strings[n]) } }

\* find_words returning only the words this call added
find_words_new_only(self) ==
    LET diag == get_diagonal_str(self)
    IN  IF diag.raised # "none"
        THEN [raised |-> diag.raised, self |-> self, ret |-> {}]
        ELSE LET comp_strings == get_horizontal_str(self)
                                 \o get_vertical_str(self)
                                 \o diag.value
                 added == matching_words(self, comp_strings) \ self.found_words
             IN  [raised |-> "none",
                  self |-> [self EXCEPT !.found_words = @ \cup added],
                  ret |-> added]

\* find_words taking the words out of words_dictionary as it tests them
find_words_consuming(self) ==
    LET diag == get_diagonal_str(self)
    IN  IF diag.raised # "none"
        THEN [raised |-> diag.raised, self |-> self, ret |-> {}]
        ELSE LET comp_strings == get_horizontal_str(self)
                                 \o get_vertical_str(self)
                                 \o diag.value
                 found == self.found_words
                          \cup matching_words(self, comp_strings)
             IN  [raised |-> "none",
                  self |-> [self EXCEPT !.found_words = found,
                                        !.words_dictionary = << >>],
                  ret |-> found]

find_words(self) ==
    LET diag == get_diagonal_str(self)
    IN  IF diag.raised # "none"
        THEN [raised |-> diag.raised, self |-> self, ret |-> {}]
        ELSE LET comp_strings == get_horizontal_str(self)
                                 \o get_vertical_str(self)
                                 \o diag.value
                 found == self.found_words
                          \cup matching_words(self, comp_strings)
             IN  [raised |-> "none",
                  self |-> [self EXCEPT !.found_words = found],
                  ret |-> found]

(***************************************************************************)
(* The operations on an instance.                                          *)
(***************************************************************************)
Idle ==
    [op |-> "none", obj |-> 0, raised |-> "none", ret |-> {}, fresh |-> FALSE,
     lines |-> 0, xsize |-> 0, ysize |-> 0]

Init ==
    /\ objs = [o \in Objects |-> NoObj]
    /\ last = Idle

\* WordSearch(dict_file, xsize, ysize); last records the arguments
Construct(o) ==
    /\ ~objs[o].exists
    /\ \E dict_file \in DictFiles, xy \in Sizes :
         \E rnd \in Choices(xy[1], xy[2]) :
            LET r == WordSearchInit(dict_file, xy[1], xy[2], rnd)
            IN  /\ objs' = [objs EXCEPT ![o] = r.self]
                /\ last' = [Idle EXCEPT !.op = "init", !.obj = o,
                                        !.raised = r.raised,
                                        !.lines = Len(dict_file),
                                        !.xsize = xy[1], !.ysize = xy[2]]

\* grid.find_words(); last records what was raised, the value returned and
\* whether found_words was empty when the call began
FindWords(o) ==
    /\ objs[o].exists
    /\ LET r == find_words(objs[o])
       IN  /\ objs' = [objs EXCEPT ![o] = r.self]
           /\ last' = [Idle EXCEPT !.op = "find_words", !.obj = o,
                                   !.raised = r.raised, !.ret = r.ret,
                                   !.fresh = (objs[o].found_words = {})]

\* grid.letter_grid = input_grid (the tests inject a grid of the object's size)
SetGrid(o) ==
    /\ objs[o].exists
    /\ \E g \in Grids(objs[o].xsize, objs[o].ysize) :
         /\ g # objs[o].letter_grid
         /\ objs' = [objs EXCEPT ![o].letter_grid = g]
    /\ last' = [Idle EXCEPT !.op = "set_grid", !.obj = o]

Next == \E o \in MainObjects : Construct(o) \/ FindWords(o) \/ SetGrid(o)

Spec == Init /\ [][Next]_vars

(***************************************************************************)
(* Two instances built from the same dictionary file and size, with the    *)
(* same grid injected into both, searched in any order any number of times.*)
(***************************************************************************)
RerunInit ==
    /\ \E dict_file \in DictFiles, xy \in Sizes :
         \E g \in Grids(xy[1], xy[2]) :
            \* the generated grid is overwritten by g, so one outcome of the
            \* random choices stands for all of them
            LET rnd == [j \in 1..xy[2] |-> [i \in 1..xy[1] |-> 1]]
                r == WordSearchInit(dict_file, xy[1], xy[2], rnd)
            IN  /\ r.raised = "none"
                /\ objs = [o \in Objects |-> [r.self EXCEPT !.letter_grid = g]]
    /\ last = Idle

RerunNext == \E o \in Objects : FindWords(o)

SpecRerun == RerunInit /\ [][RerunNext]_vars

(***************************************************************************)
(* Vocabulary of the properties.                                           *)
(***************************************************************************)
Constructed == {o \in Objects : objs[o].exists}

\* the instance the last operation was applied to
Self == objs[last.obj]

Found(o) == objs[o].found_words

DictSet(self) == Range(self.words_dictionary)

\* the letter at row r, column c (counted from 0) of the grid
Cell(self, r, c) == self.letter_grid[r + 1][c + 1]

InGrid(self, r, c) ==
    /\ r >= 0 /\ r < self.ysize
    /\ c >= 0 /\ c < self.xsize

Directions == ({-1, 0, 1} \X {-1, 0, 1}) \ { <<0, 0>> }

\* w can be read along a straight run of cells, in one of the eight
\* directions, without leaving the grid
Readable(self, w) ==
    /\ Len(w) >= 1
    /\ \E r \in PyRange(self.ysize), c \in PyRange(self.xsize), d \in Directions :
         \A n \in 1..Len(w) :
            /\ InGrid(self, r + (n - 1) * d[1], c + (n - 1) * d[2])
            /\ Cell(self, r + (n - 1) * d[1], c + (n - 1) * d[2]) = w[n]

\* the comparison strings the three extractors produce for the grid
ScanLines(self) ==
    Range(get_horizontal_str(self))
    \cup Range(get_vertical_str(self))
    \cup Range(get_diagonal_str(self).value)

\* the dictionary words that are a substring of a comparison string
MatchSet(self) ==
    { w \in DictSet(self) : \E line \in ScanLines(self) : IsSubstring(w, line) }

\* in a list of strings, every string at an odd position is followed by
\* its reverse
PairsReversed(strings) ==
    /\ Len(strings) % 2 = 0
    /\ \A k \in 1..(Len(strings) \div 2) :
         strings[2 * k] = Reverse(strings[2 * k - 1])

Searched == last.op = "find_words"

Returned == Searched /\ last.raised = "none"

(***************************************************************************)
(* C1: every dictionary word that can be read in the grid along a straight *)
(* run of cells in one of the eight directions is in the set find_words    *)
(* returns.                                                                *)
(***************************************************************************)
C1_EveryReadableWordFound ==
    Returned =>
        \A w \in DictSet(Self) : Readable(Self, w) => w \in last.ret

(***************************************************************************)
(* C2: on an instance whose found_words is empty, find_words returns       *)
(* exactly the dictionary words that are a substring of a comparison       *)
(* string of the grid.                                                     *)
(***************************************************************************)
C2_FreshSearchReturnsMatches ==
    (Searched /\ last.fresh) =>
        /\ last.raised = "none"
        /\ last.ret = MatchSet(Self)
        /\ Found(last.obj) = MatchSet(Self)

(***************************************************************************)
(* C3: for every grid the extractors read only cells of the grid, and      *)
(* find_words completes without an IndexError.                             *)
(***************************************************************************)
C3_ReadsStayInGrid ==
    /\ \A o \in Constructed :
         \A rc \in diagonal_reads(objs[o]) : InGrid(objs[o], rc[1], rc[2])
    /\ Searched => last.raised = "none"

(***************************************************************************)
(* C4: every find_words call leaves found_words equal to what it was       *)
(* before the call together with the matches of the grid present at the    *)
(* call, and returns that accumulated set.                                 *)
(***************************************************************************)
C4_FoundAccumulates ==
    [][ \A o \in Constructed :
          (last'.op = "find_words" /\ last'.obj = o) =>
             /\ last'.raised = "none"
             /\ Found(o)' = Found(o) \cup MatchSet(objs[o])
             /\ last'.ret = Found(o)' ]_vars

(***************************************************************************)
(* C5: construction raises ValueError exactly when the dictionary file has *)
(* no line, and then no instance (no grid, no found_words) exists; with at *)
(* least one line the instance is built with its dictionary.               *)
(***************************************************************************)
C5_EmptyDictionaryAborts ==
    last.op = "init" =>
        /\ (last.lines = 0) <=> (last.raised = "ValueError")
        /\ (last.lines = 0) => ~Self.exists
        /\ (last.lines > 0) =>
              /\ last.raised = "none"
              /\ Self.exists
              /\ Len(Self.words_dictionary) = last.lines
              /\ Self.found_words = {}

C5_Witness ==
    /\ last.op = "init"
    /\ last.lines = 0
    /\ last.raised = "ValueError"

(***************************************************************************)
(* C6: with the grid and the dictionary fixed, a find_words run has the    *)
(* same outcome (what is raised, what is returned) as the run before it,   *)
(* on the same instance or on a second instance that started empty.        *)
(***************************************************************************)
C6_RerunSameResult ==
    [][ (last.op = "find_words" /\ last'.op = "find_words") =>
           /\ last'.raised = last.raised
           /\ last'.ret = last.ret ]_vars

C6_Witness ==
    /\ Returned
    /\ last.obj = 2
    /\ ~last.fresh
    /\ last.ret # {}
    /\ Found(1) = last.ret

C8_ExtractorShape ==
    \A o \in Constructed :
        LET self == objs[o]
            h == get_horizontal_str(self)
            v == get_vertical_str(self)
            d == get_diagonal_str(self)
        IN  /\ Len(h) = 2 * self.ysize
            /\ \A r \in PyRange(self.ysize) :
                 h[2 * r + 1] = [i \in 1..self.xsize |-> Cell(self, r, i - 1)]
            /\ Len(v) = 2 * self.xsize
            /\ \A c \in PyRange(self.xsize) :
                 v[2 * c + 1] = [j \in 1..self.ysize |-> Cell(self, j - 1, c)]
            /\ d.raised = "none"
            /\ Len(d.value) = 4 * self.xsize
            /\ \A c \in PyRange(self.xsize) :
                 /\ d.value[4 * c + 1] =
                      [n \in 1..(self.xsize - c) |-> Cell(self, n - 1, c + n - 1)]
                 /\ d.value[4 * c + 2] = Reverse(d.value[4 * c + 1])
                 /\ d.value[4 * c + 3] =
                      [n \in 1..(self.xsize - c) |->
                          Cell(self, n - 1, (self.xsize - 1 - c) - (n - 1))]
                 /\ d.value[4 * c + 4] = Reverse(d.value[4 * c + 3])

(***************************************************************************)
(* C9: each extractor's output pairs every string with its reverse, so     *)
(* after a search on an empty found_words a dictionary word is found       *)
(* exactly when its reversal is a substring of a comparison string, and a  *)
(* word and its reversal, both in the dictionary, are found together.      *)
(***************************************************************************)
C9_ReversalClosed ==
    (Searched /\ last.fresh) =>
        /\ PairsReversed(get_horizontal_str(Self))
        /\ PairsReversed(get_vertical_str(Self))
        /\ PairsReversed(get_diagonal_str(Self).value)
        /\ \A w \in DictSet(Self) :
             /\ (w \in Found(last.obj)) <=>
                   (\E line \in ScanLines(Self) : IsSubstring(Reverse(w), line))
             /\ (Reverse(w) \in DictSet(Self)) =>
                   ((w \in Found(last.obj)) <=> (Reverse(w) \in Found(last.obj)))

(***************************************************************************)
(* C10: a find_words call changes nothing of the instance but found_words  *)
(* (grid, xsize, ysize, dictionary stay as they were), and the grid of an  *)
(* instance changes only when a grid is injected.                          *)
(***************************************************************************)
C10_SearchChangesOnlyFound ==
    [][ \A o \in Constructed :
          /\ (last'.op = "find_words") =>
                objs'[o] = [objs[o] EXCEPT !.found_words = Found(o)']
          /\ (objs'[o].letter_grid # objs[o].letter_grid) =>
                (last'.op = "set_grid" /\ last'.obj = o) ]_vars

C10_Witness ==
    /\ Returned
    /\ Found(last.obj) # {}
    /\ ~last.fresh

====
